---- MODULE Spec2Model ----
(***************************************************************************)
(* Model of implicit_filter.cupy_filter.CuPyFilter: the perturbation-form  *)
(* conjugate-gradient solves (_compute, _compute_full) and the chunked,    *)
(* thread-pool batch calls built on them (_many_compute, _spectra_compute, *)
(* _many_compute_full, _spectra_compute_full).                             *)
(*                                                                         *)
(* Numbers are exact rationals <<numerator, denominator>> (denominator > 0,*)
(* lowest terms).  Vectors are sequences of rationals, matrices sequences  *)
(* of rows.  Python's 0-based position p is position p + 1 of a sequence;  *)
(* triplet indices, chunk offsets and device ordinals keep their 0-based   *)
(* source values.                                                          *)
(***************************************************************************)
EXTENDS Integers, Sequences, FiniteSets, TLC

----------------------------------------------------------------------------
(* Exact rational arithmetic (the float64 arithmetic of the arrays).       *)

Abs(a) == IF a < 0 THEN -a ELSE a

RECURSIVE GCD(_, _)
GCD(a, b) == IF b = 0 THEN a ELSE GCD(b, a % b)

Rat(num, den) ==
    LET g == GCD(Abs(num), Abs(den))
        s == IF den < 0 THEN -1 ELSE 1
    IN  <<(s * num) \div g, (s * den) \div g>>

Int2Rat(k) == <<k, 1>>
Zero == <<0, 1>>
One == <<1, 1>>
Half == <<1, 2>>

\* sums over the least common denominator and products with cross-cancelling
\* keep the intermediate integers small
RAdd(p, q) ==
    LET g == GCD(p[2], q[2])
    IN  Rat(p[1] * (q[2] \div g) + q[1] * (p[2] \div g), (p[2] \div g) * q[2])
RMul(p, q) ==
    LET g1 == GCD(Abs(p[1]), q[2])
        g2 == GCD(Abs(q[1]), p[2])
    IN  <<(p[1] \div g1) * (q[1] \div g2), (p[2] \div g2) * (q[2] \div g1)>>
RSub(p, q) == RAdd(p, <<-q[1], q[2]>>)
RDiv(p, q) == RMul(p, IF q[1] < 0 THEN <<-q[2], -q[1]>> ELSE <<q[2], q[1]>>)
RNeg(p) == <<-p[1], p[2]>>

RECURSIVE RSum(_)
RSum(s) == IF s = <<>> THEN Zero ELSE RAdd(Head(s), RSum(Tail(s)))

----------------------------------------------------------------------------
(* Dense vector and matrix algebra (the cupy / cupyx.scipy.sparse          *)
(* operators the solves use).                                              *)

\* the sequence s with every element computed once
RECURSIVE Prefix(_, _)
Prefix(s, d) == IF d = 0 THEN <<>> ELSE Append(Prefix(s, d - 1), s[d])
Tabulate(s) == Prefix(s, Len(s))

ZeroVec(d) == Tabulate([p \in 1..d |-> Zero])
VAdd(u, v) == Tabulate([p \in 1..Len(u) |-> RAdd(u[p], v[p])])
VSub(u, v) == Tabulate([p \in 1..Len(u) |-> RSub(u[p], v[p])])
VScale(c, v) == Tabulate([p \in 1..Len(v) |-> RMul(c, v[p])])
Dot(u, v) == RSum(Tabulate([p \in 1..Len(u) |-> RMul(u[p], v[p])]))

\* cupyx.scipy.sparse.identity(d)
cupy_identity(d) ==
    Tabulate([r \in 1..d |-> Tabulate([c \in 1..d |-> IF r = c THEN One ELSE Zero])])

MAdd(A, B) ==
    Tabulate([r \in 1..Len(A) |->
        Tabulate([c \in 1..Len(A) |-> RAdd(A[r][c], B[r][c])])])

MScale(k, A) ==
    Tabulate([r \in 1..Len(A) |-> Tabulate([c \in 1..Len(A) |-> RMul(k, A[r][c])])])

\* A @ v
MatVec(A, v) == Tabulate([r \in 1..Len(A) |-> Dot(A[r], v)])

\* A @ B
MatMul(A, B) ==
    Tabulate([r \in 1..Len(A) |->
        Tabulate([c \in 1..Len(A) |->
            RSum(Tabulate([k \in 1..Len(A) |-> RMul(A[r][k], B[k][c])]))])])

\* the n-th power of a number
RECURSIVE RPow(_, _)
RPow(p, n) == IF n = 0 THEN One ELSE RMul(RPow(p, n - 1), p)

\* the elementwise power: every entry of A raised to n
MatPowElementwise(A, n) ==
    Tabulate([r \in 1..Len(A) |-> Tabulate([c \in 1..Len(A) |-> RPow(A[r][c], n)])])

\* A ** n of a sparse matrix: the n-fold matrix product, A ** 0 the identity
RECURSIVE MatPow(_, _)
MatPow(A, n) == IF n = 0 THEN cupy_identity(Len(A)) ELSE MatMul(MatPow(A, n - 1), A)

RemoveAt(s, k) == Tabulate([p \in 1..(Len(s) - 1) |-> IF p < k THEN s[p] ELSE s[p + 1]])
Minor(A, c) == Tabulate([r \in 1..(Len(A) - 1) |-> RemoveAt(A[r + 1], c)])

\* the determinant, expanded along the first row
RECURSIVE Det(_)
Det(A) ==
    IF Len(A) = 0 THEN One
    ELSE RSum(Tabulate([c \in 1..Len(A) |->
            RMul(IF c % 2 = 1 THEN A[1][c] ELSE RNeg(A[1][c]), Det(Minor(A, c)))]))

ReplaceCol(A, c, v) ==
    Tabulate([r \in 1..Len(A) |->
        Tabulate([k \in 1..Len(A) |-> IF k = c THEN v[r] ELSE A[r][k]])])

\* the solution of A y = b for nonsingular A (Cramer's rule)
ExactSolve(A, b) ==
    Tabulate([c \in 1..Len(A) |-> RDiv(Det(ReplaceCol(A, c, b)), Det(A))])

Parallel(u, v) == \A p, q \in 1..Len(u) : RMul(u[p], v[q]) = RMul(u[q], v[p])

----------------------------------------------------------------------------
(* Outcomes of a call: a returned value or a raised exception.             *)

NoVal == <<>>
NoExc == [type |-> "none", msg |-> "", code |-> 0]
Returned(v) == [exc |-> NoExc, val |-> v]
Raised(type, msg, code) ==
    [exc |-> [type |-> type, msg |-> msg, code |-> code], val |-> NoVal]

MsgScalar == "Solver has not converged without metric terms"
MsgFull == "Solver has not converged with metric terms"

----------------------------------------------------------------------------
(* Library calls of the solves.                                            *)

InRange(idx, d) == \A k \in 1..Len(idx) : 0 <= idx[k] /\ idx[k] < d

\* cupyx.scipy.sparse.csc_matrix((vals, (rows, cols)), shape=(d, d)): the
\* coordinate-format constructor refuses an index outside the shape with a
\* ValueError and otherwise sums the values of repeated (row, col) pairs.
cupy_csc(vals, rows, cols, d) ==
    IF ~(InRange(rows, d) /\ InRange(cols, d))
    THEN Raised("ValueError", "index exceeds matrix dimensions", 0)
    ELSE Returned(Tabulate([r \in 1..d |->
            Tabulate([c \in 1..d |->
                RSum(Tabulate([k \in 1..Len(vals) |->
                    IF rows[k] = r - 1 /\ cols[k] = c - 1 THEN vals[k] ELSE Zero]))])]))

\* cupyx.scipy.sparse.linalg.cg(A, b, tol, maxiter) in exact arithmetic (the
\* limit tol -> 0): a zero right-hand side returns at once; a right-hand side
\* that A maps onto a nonzero multiple of itself is solved by the first
\* iteration; otherwise the iteration ends with the solution within Len(A)
\* iterations when A is nonsingular.  A run that uses up maxiter without
\* reaching the solution returns info = maxiter and its last iterate.
cupy_cg(A, b, tol, maxiter) ==
    LET Ab == MatVec(A, b) IN
    IF b = ZeroVec(Len(b)) THEN [x |-> b, info |-> 0]
    ELSE IF Parallel(Ab, b) /\ Dot(b, Ab) # Zero /\ maxiter >= 1
         THEN [x |-> VScale(RDiv(Dot(b, b), Dot(b, Ab)), b), info |-> 0]
    ELSE IF ~Parallel(Ab, b) /\ Det(A) # Zero /\ maxiter >= Len(A)
         THEN [x |-> ExactSolve(A, b), info |-> 0]
    ELSE [x |-> ZeroVec(Len(b)), info |-> maxiter]

----------------------------------------------------------------------------
(* The single solves.  slf is the filter instance [n2d, ss, ii, jj].       *)

\* ss * (1.0 / square(kl))
ScaledValues(slf, kl) ==
    LET c == RDiv(One, RMul(kl, kl))
    IN  Tabulate([k \in 1..Len(slf.ss) |-> RMul(slf.ss[k], c)])

\* identity(d) + 0.5 * (Smat1 ** n)
FilterMatrix(Smat1, n) ==
    MAdd(cupy_identity(Len(Smat1)), MScale(Half, MatPow(Smat1, n)))

\* Smat @ ttu - ttu: the perturbation with its sign reversed
PerturbationReversed(Smat, ttu) == VSub(MatVec(Smat, ttu), ttu)

\* ttu - Smat @ ttu
Perturbation(Smat, ttu) == VSub(ttu, MatVec(Smat, ttu))

\* tts += ttu
AddBack(tts, ttu) == VAdd(tts, ttu)

_compute(slf, n, kl, ttu, tol, maxiter) ==
    LET Smat1 == cupy_csc(ScaledValues(slf, kl), slf.ii, slf.jj, slf.n2d) IN
    IF Smat1.exc # NoExc THEN Smat1
    ELSE LET Smat == FilterMatrix(Smat1.val, n)
             ttw == Perturbation(Smat, ttu)
             r == cupy_cg(Smat, ttw, tol, maxiter)
         IN  IF r.info # 0
             THEN Raised("SolverNotConvergedError", MsgScalar, r.info)
             ELSE Returned(AddBack(r.x, ttu))

\* _compute_full raising the message of _compute
ComputeFullScalarMessage(slf, n, kl, ttuv, tol, maxiter) ==
    LET Smat1 == cupy_csc(ScaledValues(slf, kl), slf.ii, slf.jj, 2 * slf.n2d) IN
    IF Smat1.exc # NoExc THEN Smat1
    ELSE LET Smat == FilterMatrix(Smat1.val, n)
             ttw == Perturbation(Smat, ttuv)
             r == cupy_cg(Smat, ttw, tol, maxiter)
         IN  IF r.info # 0
             THEN Raised("SolverNotConvergedError", MsgScalar, r.info)
             ELSE Returned(AddBack(r.x, ttuv))

_compute_full(slf, n, kl, ttuv, tol, maxiter) ==
    LET Smat1 == cupy_csc(ScaledValues(slf, kl), slf.ii, slf.jj, 2 * slf.n2d) IN
    IF Smat1.exc # NoExc THEN Smat1
    ELSE LET Smat == FilterMatrix(Smat1.val, n)
             ttw == Perturbation(Smat, ttuv)
             r == cupy_cg(Smat, ttw, tol, maxiter)
         IN  IF r.info # 0
             THEN Raised("SolverNotConvergedError", MsgFull, r.info)
             ELSE Returned(AddBack(r.x, ttuv))

\* the single solve named fn
SolveDirect(fn, slf, n, kl, tt, tol, maxiter) ==
    IF fn = "_compute_full"
    THEN _compute_full(slf, n, kl, tt, tol, maxiter)
    ELSE _compute(slf, n, kl, tt, tol, maxiter)

----------------------------------------------------------------------------
(* State.                                                                  *)

VARIABLES
    self,         \* the filter instance: [n2d, ss, ii, jj]
    call,         \* the call: [op, n, kl, data, vy, tol, maxiter]
    no_gpu,       \* cupy.cuda.runtime.getDeviceCount()
    max_workers,  \* worker threads a ThreadPoolExecutor() may run
    pc,           \* position of the calling thread
    j,            \* offset of the current chunk
    i,            \* position of the submit loop in the chunk
    futures,      \* futures of the current chunk, in submission order
    f,            \* position of the collect loop in futures
    output,       \* output of the scalar batches
    oux,          \* first output list of the combined batches
    ovy,          \* second output list of the combined batches
    ret,          \* what the call returned or raised
    submitted,    \* task indices handed to executor.submit so far, in order
    finished,     \* task indices whose solve has ended
    held,         \* <<task index, device>> of the tasks inside `with Device(dev)`
    failed,       \* task indices whose solve raised
    invoked,      \* the calls of the single solve by helper, in order:
                  \* [task, tol, maxiter]
    work          \* locals of a single solve: [Smat, ttw, tts, code]

vars == <<self, call, no_gpu, max_workers, pc, j, i, futures, f, output, oux, ovy,
          ret, submitted, finished, held, failed, invoked, work>>

ScalarBatches == {"_many_compute", "_spectra_compute"}
FullBatches == {"_many_compute_full", "_spectra_compute_full"}
ManyBatches == {"_many_compute", "_many_compute_full"}
SpectraBatches == {"_spectra_compute", "_spectra_compute_full"}
Batches == ScalarBatches \cup FullBatches
Solves == {"_compute", "_compute_full"}
FullOps == FullBatches \cup {"_compute_full"}

Pending == [exc |-> NoExc, val |-> NoVal, pending |-> TRUE]
NoWork == [Smat |-> <<>>, ttw |-> <<>>, tts |-> <<>>, code |-> 0]

Min(a, b) == IF a < b THEN a ELSE b

\* s[a:b] for 0 <= a <= b
Slice(s, a, b) == SubSeq(s, a + 1, Min(b, Len(s)))

----------------------------------------------------------------------------
(* Inputs.                                                                 *)

MaxGpu == 2
MaxWorkers == 2
MaxOrder == 2
MaxEntry == 1

IntVec(v) == Tabulate([p \in 1..Len(v) |-> Int2Rat(v[p])])

\* two nodes, scalar mode: S = -8 I of size 2, entry (0, 0) given by two
\* triplets; the filter matrix of order 1 is singular at kl = 2
ScalarMesh ==
    [n2d |-> 2, ss |-> IntVec(<<-4, -4, -8>>), ii |-> <<0, 0, 1>>, jj |-> <<0, 0, 1>>]

\* two nodes, combined mode: S = -8 I of size 4, entry (0, 0) given twice
FullMesh ==
    [n2d |-> 2, ss |-> IntVec(<<-4, -4, -8, -8, -8>>),
     ii |-> <<0, 0, 1, 2, 3>>, jj |-> <<0, 0, 1, 2, 3>>]

\* the operator [[2, -1], [-1, 2]], entry (0, 0) given twice, on n2d nodes
StiffMesh(n2d) ==
    [n2d |-> n2d, ss |-> IntVec(<<1, 1, -1, -1, 2>>),
     ii |-> <<0, 0, 0, 1, 1>>, jj |-> <<0, 0, 1, 0, 1>>]

\* a triplet with row index 2, on n2d nodes
BadMesh(n2d) ==
    [n2d |-> n2d, ss |-> IntVec(<<1, 1>>), ii |-> <<0, 2>>, jj |-> <<0, 1>>]

Tol == <<1, 100000>>
DefaultMaxiter == 150000

----------------------------------------------------------------------------
(* The batch calls: chunks, tasks and the pool.                            *)

\* n_parallel: the chunk size of each batch call
n_parallel(op) == IF op \in FullBatches THEN 12 ELSE 24

\* the list the chunk loop runs over: data, kl, ux, kl
Items(c) == IF c.op \in ManyBatches THEN c.data ELSE c.kl

\* s[j:]: a chunk with no upper end
ChunkUnbounded(s, op, jj) == Slice(s, jj, Len(s))

\* s[j:j + n_parallel]
ChunkOf(s, op, jj) == Slice(s, jj, jj + n_parallel(op))

\* data_chunk, kl_chunk, ux_chunk
Chunk(c, jj) == ChunkOf(Items(c), c.op, jj)

\* jnp.concatenate((ux, vy))
concatenate(ux, vy) == ux \o vy

\* the first argument of helper for the task at position ii of the chunk at jj
TaskArg(c, jj, ii) ==
    IF c.op = "_many_compute_full"
    THEN concatenate(Chunk(c, jj)[ii + 1], ChunkOf(c.vy, c.op, jj)[ii + 1])
    ELSE Chunk(c, jj)[ii + 1]

\* the single solve helper(arg, dev) calls, and its arguments
SolveArgs(c, arg) ==
    CASE c.op = "_many_compute" -> <<"_compute", c.n, c.kl, arg, c.tol, c.maxiter>>
      [] c.op = "_spectra_compute" -> <<"_compute", c.n, arg, c.data, c.tol, c.maxiter>>
      [] c.op = "_many_compute_full" ->
            <<"_compute_full", c.n, c.kl, arg, c.tol, c.maxiter>>
      [] c.op = "_spectra_compute_full" ->
            <<"_compute_full", c.n, arg, concatenate(c.data, c.vy), c.tol, c.maxiter>>

----------------------------------------------------------------------------
(* Batches of Init.                                                        *)

\* no task, one, two, one chunk and a task more and, in the combined batches,
\* exactly one chunk
BatchSizes(op) ==
    {0, 1, 2, n_parallel(op) + 1} \cup (IF op \in FullBatches THEN {n_parallel(op)} ELSE {})

\* positions of the batch whose input is chosen to make the solve fail: none;
\* the only task; or, in a batch of two chunks, the task of the second chunk
\* and, in the combined batches, also the first task, or two tasks of the
\* first chunk
BadSets(op, m) ==
    {{}} \cup (IF m = 1 THEN {{0}}
               ELSE IF m > n_parallel(op)
                    THEN {{n_parallel(op)}} \cup
                         (IF op \in FullBatches
                          THEN {{0}, {n_parallel(op) \div 2, n_parallel(op) - 1}}
                          ELSE {})
                    ELSE {})

\* many-data batches.  With no bad position the batch runs at kl = 1 and task
\* p filters the field (p, p + 1), in combined mode the pair (p, p + 1),
\* (-p, 0).  With bad positions it runs at the singular kl = 2, where the zero
\* field converges and the field at a bad position, which is not zero, does
\* not.
ManyCall(op, m, bad) ==
    [op |-> op, n |-> 1, kl |-> IF bad = {} THEN One ELSE Int2Rat(2),
     data |-> Tabulate([p \in 1..m |->
                 IF bad = {} THEN IntVec(<<p, p + 1>>)
                 ELSE IntVec(<<IF (p - 1) \in bad THEN 1 ELSE 0, 0>>)]),
     vy |-> IF op = "_many_compute"
            THEN <<>>
            ELSE Tabulate([p \in 1..m |->
                    IF bad = {} THEN IntVec(<<0 - p, 0>>) ELSE IntVec(<<0, 0>>)]),
     tol |-> Tol, maxiter |-> DefaultMaxiter]

\* many-scale batches: task p solves at kl = p + 2, or at the singular kl = 2
SpectraCall(op, m, bad) ==
    [op |-> op, n |-> 1,
     kl |-> Tabulate([p \in 1..m |-> Int2Rat(IF (p - 1) \in bad THEN 2 ELSE p + 2)]),
     data |-> IntVec(<<1, 2>>),
     vy |-> IF op = "_spectra_compute" THEN <<>> ELSE IntVec(<<0, -1>>),
     tol |-> Tol, maxiter |-> DefaultMaxiter]

Scenarios ==
    UNION {UNION {{<<op, m, bad>> : bad \in BadSets(op, m)} : m \in BatchSizes(op)} :
           op \in Batches}

BatchCall(sc) ==
    IF sc[1] \in ManyBatches THEN ManyCall(sc[1], sc[2], sc[3])
    ELSE SpectraCall(sc[1], sc[2], sc[3])

BatchMesh(op) == IF op \in FullBatches THEN FullMesh ELSE ScalarMesh

\* the tasks of a batch call: the arguments of their single solves
TasksOf(c) ==
    UNION {{SolveArgs(c, TaskArg(c, jj, ii)) : ii \in 0..(Len(Chunk(c, jj)) - 1)} :
           jj \in {p \in 0..(Len(Items(c)) - 1) : p % n_parallel(c.op) = 0}}

BatchTasks ==
    UNION {{<<BatchMesh(sc[1]), a>> : a \in TasksOf(BatchCall(sc))} : sc \in Scenarios}

\* SolveDirect tabulated over the tasks of the batches of Init: a single solve
\* is a function of its arguments, and the batches repeat them
SolveTable ==
    [key \in BatchTasks |->
        SolveDirect(key[2][1], key[1], key[2][2], key[2][3], key[2][4], key[2][5],
                    key[2][6])] @@ <<>>

\* the single solve with arguments a = <<fn, n, kl, tt, tol, maxiter>>
Solved(slf, a) ==
    IF <<slf, a>> \in DOMAIN SolveTable THEN SolveTable[<<slf, a>>]
    ELSE SolveDirect(a[1], slf, a[2], a[3], a[4], a[5], a[6])

\* helper(arg, dev): the solve of one task, run inside `with Device(dev)`
helper(slf, c, arg) == Solved(slf, SolveArgs(c, arg))

\* futures whose task runs, and futures whose task is not done
Running == {k \in 1..Len(futures) : futures[k].state = "running"}
InFlight == {k \in 1..Len(futures) : futures[k].state # "done"}

Init ==
    /\ \E sc \in Scenarios :
         /\ self = BatchMesh(sc[1])
         /\ call = BatchCall(sc)
    /\ no_gpu \in 1..MaxGpu
    /\ max_workers \in 1..MaxWorkers
    /\ pc = "loop"
    /\ j = 0
    /\ i = 0
    /\ futures = <<>>
    /\ f = 0
    /\ output = <<>>
    /\ oux = <<>>
    /\ ovy = <<>>
    /\ ret = Pending
    /\ submitted = <<>>
    /\ finished = {}
    /\ held = {}
    /\ failed = {}
    /\ invoked = <<>>
    /\ work = NoWork

----------------------------------------------------------------------------
(* Steps of the calling thread and of the pool's worker threads.           *)

\* for j in range(0, len(...), n_parallel): the next chunk, with futures = []
NextChunk ==
    /\ pc = "loop"
    /\ j < Len(Items(call))
    /\ pc' = "submit"
    /\ i' = 0
    /\ futures' = <<>>
    /\ UNCHANGED <<self, call, no_gpu, max_workers, j, f, output, oux, ovy, ret,
                   submitted, finished, held, failed, invoked, work>>

\* the chunk loop is over: return output, or return oux, ovy
Return ==
    /\ pc = "loop"
    /\ j >= Len(Items(call))
    /\ pc' = "returned"
    /\ ret' = Returned(IF call.op \in FullBatches THEN <<oux, ovy>> ELSE output)
    /\ UNCHANGED <<self, call, no_gpu, max_workers, j, i, futures, f, output, oux, ovy,
                   submitted, finished, held, failed, invoked, work>>

\* the submit loop passing the task's index in the whole batch, (j + i) % no_gpu
SubmitTaskIndex ==
    /\ pc = "submit"
    /\ i < Len(Chunk(call, j))
    /\ futures' = Append(futures, [state |-> "queued", arg |-> TaskArg(call, j, i),
                                   dev |-> (j + i) % no_gpu, res |-> Pending])
    /\ submitted' = Append(submitted, j + i)
    /\ i' = i + 1
    /\ UNCHANGED <<self, call, no_gpu, max_workers, pc, j, f, output, oux, ovy, ret,
                   finished, held, failed, invoked, work>>

\* the submit loop passing device 0 for every task
SubmitFirstDevice ==
    /\ pc = "submit"
    /\ i < Len(Chunk(call, j))
    /\ futures' = Append(futures, [state |-> "queued", arg |-> TaskArg(call, j, i),
                                   dev |-> 0, res |-> Pending])
    /\ submitted' = Append(submitted, j + i)
    /\ i' = i + 1
    /\ UNCHANGED <<self, call, no_gpu, max_workers, pc, j, f, output, oux, ovy, ret,
                   finished, held, failed, invoked, work>>

\* futures.append(executor.submit(helper, arg, i % no_gpu))
Submit ==
    /\ pc = "submit"
    /\ i < Len(Chunk(call, j))
    /\ futures' = Append(futures, [state |-> "queued", arg |-> TaskArg(call, j, i),
                                   dev |-> i % no_gpu, res |-> Pending])
    /\ submitted' = Append(submitted, j + i)
    /\ i' = i + 1
    /\ UNCHANGED <<self, call, no_gpu, max_workers, pc, j, f, output, oux, ovy, ret,
                   finished, held, failed, invoked, work>>

\* worker threads that take no further task once a task has raised
WorkerStartUntilFailure(k) ==
    /\ futures[k].state = "queued"
    /\ \A m \in 1..(k - 1) : futures[m].state # "queued"
    /\ Cardinality(Running) < max_workers
    /\ failed = {}
    /\ held' = held \cup {<<j + k - 1, futures[k].dev>>}
    /\ futures' = [futures EXCEPT ![k].state = "running"]
    /\ invoked' = Append(invoked,
                         [task |-> j + k - 1,
                          tol |-> SolveArgs(call, futures[k].arg)[5],
                          maxiter |-> SolveArgs(call, futures[k].arg)[6]])
    /\ UNCHANGED <<self, call, no_gpu, max_workers, pc, j, i, f, output, oux, ovy, ret,
                   submitted, finished, failed, work>>

\* a worker thread takes the oldest queued task and enters `with Device(dev)`
WorkerStart(k) ==
    /\ futures[k].state = "queued"
    /\ \A m \in 1..(k - 1) : futures[m].state # "queued"
    /\ Cardinality(Running) < max_workers
    /\ held' = held \cup {<<j + k - 1, futures[k].dev>>}
    /\ futures' = [futures EXCEPT ![k].state = "running"]
    /\ invoked' = Append(invoked,
                         [task |-> j + k - 1,
                          tol |-> SolveArgs(call, futures[k].arg)[5],
                          maxiter |-> SolveArgs(call, futures[k].arg)[6]])
    /\ UNCHANGED <<self, call, no_gpu, max_workers, pc, j, i, f, output, oux, ovy, ret,
                   submitted, finished, failed, work>>

\* a helper that leaves the with block only when its solve returned
WorkerFinishKeepOnRaise(k) ==
    /\ futures[k].state = "running"
    /\ finished' = finished \cup {j + k - 1}
    /\ futures' = [futures EXCEPT ![k].state = "done",
                                  ![k].res = helper(self, call, futures[k].arg)]
    /\ held' = IF helper(self, call, futures[k].arg).exc # NoExc
               THEN held
               ELSE held \ {<<j + k - 1, futures[k].dev>>}
    /\ failed' = IF helper(self, call, futures[k].arg).exc # NoExc
                 THEN failed \cup {j + k - 1}
                 ELSE failed
    /\ UNCHANGED <<self, call, no_gpu, max_workers, pc, j, i, f, output, oux, ovy, ret,
                   submitted, invoked, work>>

\* the task's solve returns or raises, the with block is left, and the future
\* keeps the outcome
WorkerFinish(k) ==
    /\ futures[k].state = "running"
    /\ finished' = finished \cup {j + k - 1}
    /\ futures' = [futures EXCEPT ![k].state = "done",
                                  ![k].res = helper(self, call, futures[k].arg)]
    /\ held' = held \ {<<j + k - 1, futures[k].dev>>}
    /\ failed' = IF helper(self, call, futures[k].arg).exc # NoExc
                 THEN failed \cup {j + k - 1}
                 ELSE failed
    /\ UNCHANGED <<self, call, no_gpu, max_workers, pc, j, i, f, output, oux, ovy, ret,
                   submitted, invoked, work>>

\* the calling thread goes on to the next chunk without waiting for the tasks
\* and without collecting their results
ShutdownDeferCollect ==
    /\ pc = "submit"
    /\ i = Len(Chunk(call, j))
    /\ pc' = "loop"
    /\ j' = j + n_parallel(call.op)
    /\ UNCHANGED <<self, call, no_gpu, max_workers, i, futures, f, output, oux, ovy,
                   ret, submitted, finished, held, failed, invoked, work>>

\* executor.shutdown(wait=True) and the end of the with block: the calling
\* thread goes on when every task of the chunk is done
Shutdown ==
    /\ pc = "submit"
    /\ i = Len(Chunk(call, j))
    /\ \A k \in 1..Len(futures) : futures[k].state = "done"
    /\ pc' = "collect"
    /\ f' = 0
    /\ UNCHANGED <<self, call, no_gpu, max_workers, j, i, futures, output, oux, ovy,
                   ret, submitted, finished, held, failed, invoked, work>>

\* tts[0:n2d]
FirstHalf(tts, n2d) == Slice(tts, 0, n2d)

\* tts[n2d - 1:2 * n2d - 1]: the second half taken one position early
SecondHalfShifted(tts, n2d) == Slice(tts, n2d - 1, 2 * n2d - 1)

\* tts[n2d:2 * n2d]
SecondHalf(tts, n2d) == Slice(tts, n2d, 2 * n2d)

\* the collect loop reading the futures from the last to the first
CollectReversed ==
    /\ pc = "collect"
    /\ f < Len(futures)
    /\ futures[Len(futures) - f].state = "done"
    /\ LET r == futures[Len(futures) - f].res IN
         IF r.exc # NoExc
         THEN /\ pc' = "raised"
              /\ ret' = r
              /\ UNCHANGED <<f, output, oux, ovy>>
         ELSE /\ f' = f + 1
              /\ IF call.op \in FullBatches
                 THEN /\ oux' = Append(oux, FirstHalf(r.val, self.n2d))
                      /\ ovy' = Append(ovy, SecondHalf(r.val, self.n2d))
                      /\ UNCHANGED output
                 ELSE /\ output' = Append(output, r.val)
                      /\ UNCHANGED <<oux, ovy>>
              /\ UNCHANGED <<pc, ret>>
    /\ UNCHANGED <<self, call, no_gpu, max_workers, j, i, futures, submitted, finished,
                   held, failed, invoked, work>>

\* the collect loop passing over a future whose task raised
CollectSkipFailed ==
    /\ pc = "collect"
    /\ f < Len(futures)
    /\ futures[f + 1].state = "done"
    /\ LET r == futures[f + 1].res IN
         /\ f' = f + 1
         /\ IF r.exc # NoExc
            THEN UNCHANGED <<output, oux, ovy>>
            ELSE IF call.op \in FullBatches
                 THEN /\ oux' = Append(oux, FirstHalf(r.val, self.n2d))
                      /\ ovy' = Append(ovy, SecondHalf(r.val, self.n2d))
                      /\ UNCHANGED output
                 ELSE /\ output' = Append(output, r.val)
                      /\ UNCHANGED <<oux, ovy>>
         /\ UNCHANGED <<pc, ret>>
    /\ UNCHANGED <<self, call, no_gpu, max_workers, j, i, futures, submitted, finished,
                   held, failed, invoked, work>>

\* the collect loop submitting again a task whose solve raised
CollectRetry ==
    /\ pc = "collect"
    /\ f < Len(futures)
    /\ futures[f + 1].state = "done"
    /\ LET r == futures[f + 1].res IN
         IF r.exc # NoExc
         THEN /\ futures' = [futures EXCEPT ![f + 1].state = "queued",
                                            ![f + 1].res = Pending]
              /\ submitted' = Append(submitted, j + f)
              /\ UNCHANGED <<f, output, oux, ovy>>
         ELSE /\ f' = f + 1
              /\ IF call.op \in FullBatches
                 THEN /\ oux' = Append(oux, FirstHalf(r.val, self.n2d))
                      /\ ovy' = Append(ovy, SecondHalf(r.val, self.n2d))
                      /\ UNCHANGED output
                 ELSE /\ output' = Append(output, r.val)
                      /\ UNCHANGED <<oux, ovy>>
              /\ UNCHANGED <<futures, submitted>>
    /\ UNCHANGED <<self, call, no_gpu, max_workers, pc, j, i, ret, finished, held,
                   failed, invoked, work>>

\* for f in futures: f.result() waits for the task, re-raises its exception,
\* or gives the result that is appended
Collect ==
    /\ pc = "collect"
    /\ f < Len(futures)
    /\ futures[f + 1].state = "done"
    /\ LET r == futures[f + 1].res IN
         IF r.exc # NoExc
         THEN /\ pc' = "raised"
              /\ ret' = r
              /\ UNCHANGED <<f, output, oux, ovy>>
         ELSE /\ f' = f + 1
              /\ IF call.op \in FullBatches
                 THEN /\ oux' = Append(oux, FirstHalf(r.val, self.n2d))
                      /\ ovy' = Append(ovy, SecondHalf(r.val, self.n2d))
                      /\ UNCHANGED output
                 ELSE /\ output' = Append(output, r.val)
                      /\ UNCHANGED <<oux, ovy>>
              /\ UNCHANGED <<pc, ret>>
    /\ UNCHANGED <<self, call, no_gpu, max_workers, j, i, futures, submitted, finished,
                   held, failed, invoked, work>>

\* the chunk loop stepping j by one less than n_parallel
EndChunkOverlap ==
    /\ pc = "collect"
    /\ f = Len(futures)
    /\ j' = j + n_parallel(call.op) - 1
    /\ pc' = "loop"
    /\ UNCHANGED <<self, call, no_gpu, max_workers, i, futures, f, output, oux, ovy,
                   ret, submitted, finished, held, failed, invoked, work>>

\* the collect loop is over; the chunk loop steps j by n_parallel
EndChunk ==
    /\ pc = "collect"
    /\ f = Len(futures)
    /\ j' = j + n_parallel(call.op)
    /\ pc' = "loop"
    /\ UNCHANGED <<self, call, no_gpu, max_workers, i, futures, f, output, oux, ovy,
                   ret, submitted, finished, held, failed, invoked, work>>

Next ==
    \/ NextChunk
    \/ Return
    \/ Submit
    \/ \E k \in 1..Len(futures) : WorkerStart(k)
    \/ \E k \in 1..Len(futures) : WorkerFinish(k)
    \/ Shutdown
    \/ Collect
    \/ EndChunk

Spec == Init /\ [][Next]_vars

\* The batch calls with threads that keep running: the calling thread and
\* the worker threads of the pool are scheduled, and a solve that was started
\* returns or raises, so a step that can be taken is taken in the end.
\* (Every step of Next changes one of the variables of position.)
position == <<pc, i, j, f, finished, held>>
\* (The device of a task enables or disables no step, so one device is taken.)
InitFair == Init /\ no_gpu = 1
SpecFair == InitFair /\ [][Next]_vars /\ WF_position(Next)

\* The batch calls on up to MaxDevices devices.  The device of a task is
\* fixed when the task is submitted, whatever the worker threads do, so the
\* pool runs one worker here.
MaxDevices == 5

InitDevices ==
    /\ \E sc \in Scenarios :
         /\ self = BatchMesh(sc[1])
         /\ call = BatchCall(sc)
    /\ no_gpu \in 1..MaxDevices
    /\ max_workers = 1
    /\ pc = "loop"
    /\ j = 0
    /\ i = 0
    /\ futures = <<>>
    /\ f = 0
    /\ output = <<>>
    /\ oux = <<>>
    /\ ovy = <<>>
    /\ ret = Pending
    /\ submitted = <<>>
    /\ finished = {}
    /\ held = {}
    /\ failed = {}
    /\ invoked = <<>>
    /\ work = NoWork

SpecDevices == InitDevices /\ [][Next]_vars

----------------------------------------------------------------------------
(* A single solve, statement by statement.                                 *)

Wavelengths == {One, Int2Rat(2)}
Maxiters == {1, DefaultMaxiter}
Vectors(d) == {IntVec(v) : v \in [1..d -> (0 - MaxEntry)..MaxEntry]}

\* the instances a single solve is run on: systems of size 2
SolveMeshes(op) ==
    IF op = "_compute" THEN {ScalarMesh, StiffMesh(2), BadMesh(2)}
    ELSE {StiffMesh(1), BadMesh(1),
          [n2d |-> 1, ss |-> IntVec(<<-8, -4, -4>>), ii |-> <<0, 1, 1>>, jj |-> <<0, 1, 1>>]}

\* the size of the system: n2d, or 2 * n2d with metric terms
Size(op, slf) == IF op \in FullOps THEN 2 * slf.n2d ELSE slf.n2d

\* the message of the convergence error
Msg(op) == IF op \in FullOps THEN MsgFull ELSE MsgScalar

InitSolve ==
    /\ \E op \in Solves :
         /\ self \in SolveMeshes(op)
         /\ \E n \in 1..MaxOrder, kl \in Wavelengths, mi \in Maxiters :
              \E tt \in Vectors(Size(op, self)) :
                call = [op |-> op, n |-> n, kl |-> kl, data |-> tt, vy |-> <<>>,
                        tol |-> Tol, maxiter |-> mi]
    /\ no_gpu = 1
    /\ max_workers = 1
    /\ pc = "assemble"
    /\ j = 0
    /\ i = 0
    /\ futures = <<>>
    /\ f = 0
    /\ output = <<>>
    /\ oux = <<>>
    /\ ovy = <<>>
    /\ ret = Pending
    /\ submitted = <<>>
    /\ finished = {}
    /\ held = {}
    /\ failed = {}
    /\ invoked = <<>>
    /\ work = NoWork

\* Smat1 = csc_matrix(...); Smat = identity(d) + 0.5 * (Smat1 ** n)
Assemble ==
    /\ pc = "assemble"
    /\ LET Smat1 == cupy_csc(ScaledValues(self, call.kl), self.ii, self.jj,
                             Size(call.op, self)) IN
         IF Smat1.exc # NoExc
         THEN /\ pc' = "raised"
              /\ ret' = Smat1
              /\ UNCHANGED work
         ELSE /\ pc' = "perturb"
              /\ work' = [work EXCEPT !.Smat = FilterMatrix(Smat1.val, call.n)]
              /\ UNCHANGED ret
    /\ UNCHANGED <<self, call, no_gpu, max_workers, j, i, futures, f, output, oux, ovy,
                   submitted, finished, held, failed, invoked>>

\* ttw = ttu - Smat @ ttu
Perturb ==
    /\ pc = "perturb"
    /\ work' = [work EXCEPT !.ttw = Perturbation(work.Smat, call.data)]
    /\ pc' = "cg"
    /\ UNCHANGED <<self, call, no_gpu, max_workers, j, i, futures, f, output, oux, ovy,
                   ret, submitted, finished, held, failed, invoked>>

\* tts, code = cg(Smat, ttw, tol=tol, maxiter=maxiter)
CallCg ==
    /\ pc = "cg"
    /\ LET r == cupy_cg(work.Smat, work.ttw, call.tol, call.maxiter) IN
         work' = [work EXCEPT !.tts = r.x, !.code = r.info]
    /\ pc' = "check"
    /\ UNCHANGED <<self, call, no_gpu, max_workers, j, i, futures, f, output, oux, ovy,
                   ret, submitted, finished, held, failed, invoked>>

\* the solve going on whatever code cg returned
CheckCodeIgnored ==
    /\ pc = "check"
    /\ pc' = "add"
    /\ UNCHANGED <<self, call, no_gpu, max_workers, j, i, futures, f, output, oux, ovy,
                   ret, submitted, finished, held, failed, invoked, work>>

\* if code != 0: raise SolverNotConvergedError(message, [... code ...])
CheckCode ==
    /\ pc = "check"
    /\ IF work.code # 0
       THEN /\ pc' = "raised"
            /\ ret' = Raised("SolverNotConvergedError", Msg(call.op), work.code)
       ELSE /\ pc' = "add"
            /\ UNCHANGED ret
    /\ UNCHANGED <<self, call, no_gpu, max_workers, j, i, futures, f, output, oux, ovy,
                   submitted, finished, held, failed, invoked, work>>

\* tts += ttu; return tts.get()
AddInput ==
    /\ pc = "add"
    /\ work' = [work EXCEPT !.tts = AddBack(work.tts, call.data)]
    /\ ret' = Returned(work'.tts)
    /\ pc' = "returned"
    /\ UNCHANGED <<self, call, no_gpu, max_workers, j, i, futures, f, output, oux, ovy,
                   submitted, finished, held, failed, invoked>>

NextSolve ==
    \/ Assemble
    \/ Perturb
    \/ CallCg
    \/ CheckCode
    \/ AddInput

SpecSolve == InitSolve /\ [][NextSolve]_vars

\* single solves and batch calls together
InitAll == Init \/ InitSolve
NextAll == Next \/ NextSolve
SpecAll == InitAll /\ [][NextAll]_vars

\* the statements of a single solve end as the solve taken as one step does
StepwiseAgrees ==
    (call.op \in Solves /\ pc \in {"returned", "raised"}) =>
        ret = SolveDirect(call.op, self, call.n, call.kl, call.data, call.tol,
                          call.maxiter)

----------------------------------------------------------------------------
(* Two tasks of one chunk, run by two worker threads statement by          *)
(* statement.  The tasks read the instance and the arguments of the call   *)
(* where they use them (self, and the arrays helper closes over or gets    *)
(* passed, are shared with the caller, not copied); Smat, ttw, tts and     *)
(* code are locals of each task.                                           *)

\* the instance of the two tasks: the operator [[2, -1], [-1, 2]]
TaskMesh(op) == IF op \in FullBatches THEN StiffMesh(1) ELSE StiffMesh(2)

\* the call of the two tasks, from a vector v of two entries: the fields v and
\* v reversed, or the wavelengths 1 and 2 on the field v
TaskCall(op, n, v, mi) ==
    [op |-> op, n |-> n,
     kl |-> IF op \in ManyBatches THEN One ELSE <<One, Int2Rat(2)>>,
     data |-> CASE op = "_many_compute" -> <<v, <<v[2], v[1]>>>>
                [] op = "_many_compute_full" -> <<<<v[1]>>, <<v[2]>>>>
                [] op = "_spectra_compute" -> v
                [] op = "_spectra_compute_full" -> <<v[1]>>,
     vy |-> CASE op = "_many_compute_full" -> <<<<v[2]>>, <<v[1]>>>>
              [] op = "_spectra_compute_full" -> <<v[2]>>
              [] OTHER -> <<>>,
     tol |-> Tol, maxiter |-> mi]

\* the arguments <<fn, n, kl, tt, tol, maxiter>> of the solve of task k, as
\* the task finds them now
TaskIn(k) == SolveArgs(call, TaskArg(call, j, k - 1))

InitTasks ==
    /\ \E op \in Batches, n \in 1..MaxOrder, v \in Vectors(2), mi \in Maxiters :
         /\ self = TaskMesh(op)
         /\ call = TaskCall(op, n, v, mi)
    /\ no_gpu \in 1..2
    /\ max_workers = 2
    /\ pc = "tasks"
    /\ j = 0
    /\ i = 2
    /\ futures = [k \in 1..2 |->
                    [state |-> "assemble", arg |-> TaskArg(call, 0, k - 1),
                     dev |-> (k - 1) % no_gpu, res |-> Pending,
                     Smat |-> <<>>, ttw |-> <<>>, tts |-> <<>>, code |-> 0]]
    /\ f = 0
    /\ output = <<>>
    /\ oux = <<>>
    /\ ovy = <<>>
    /\ ret = Pending
    /\ submitted = <<0, 1>>
    /\ finished = {}
    /\ held = {<<k - 1, (k - 1) % no_gpu>> : k \in 1..2}
    /\ failed = {}
    /\ invoked = [k \in 1..2 |-> [task |-> k - 1, tol |-> Tol, maxiter |-> call.maxiter]]
    /\ work = NoWork

\* task k ends with the outcome r and leaves its with block
TaskEnds(k, r) ==
    /\ finished' = finished \cup {j + k - 1}
    /\ held' = held \ {<<j + k - 1, futures[k].dev>>}
    /\ failed' = IF r.exc # NoExc THEN failed \cup {j + k - 1} ELSE failed

\* the scaled values written into the triplet values of the instance
TaskAssembleInPlace(k) ==
    /\ pc = "tasks"
    /\ futures[k].state = "assemble"
    /\ self' = [self EXCEPT !.ss = ScaledValues(self, TaskIn(k)[3])]
    /\ LET Smat1 == cupy_csc(self'.ss, self.ii, self.jj, Size(call.op, self)) IN
         IF Smat1.exc # NoExc
         THEN /\ futures' = [futures EXCEPT ![k].state = "done", ![k].res = Smat1]
              /\ TaskEnds(k, Smat1)
         ELSE /\ futures' = [futures EXCEPT
                                ![k].state = "perturb",
                                ![k].Smat = FilterMatrix(Smat1.val, TaskIn(k)[2])]
              /\ UNCHANGED <<finished, held, failed>>
    /\ UNCHANGED <<call, no_gpu, max_workers, pc, j, i, f, output, oux, ovy, ret,
                   submitted, invoked, work>>

\* Smat1 = csc_matrix(...); Smat = identity(d) + 0.5 * (Smat1 ** n)
TaskAssemble(k) ==
    /\ pc = "tasks"
    /\ futures[k].state = "assemble"
    /\ LET Smat1 == cupy_csc(ScaledValues(self, TaskIn(k)[3]), self.ii, self.jj,
                             Size(call.op, self)) IN
         IF Smat1.exc # NoExc
         THEN /\ futures' = [futures EXCEPT ![k].state = "done", ![k].res = Smat1]
              /\ TaskEnds(k, Smat1)
         ELSE /\ futures' = [futures EXCEPT
                                ![k].state = "perturb",
                                ![k].Smat = FilterMatrix(Smat1.val, TaskIn(k)[2])]
              /\ UNCHANGED <<finished, held, failed>>
    /\ UNCHANGED <<self, call, no_gpu, max_workers, pc, j, i, f, output, oux, ovy, ret,
                   submitted, invoked, work>>

\* ttw = ttu - Smat @ ttu
TaskPerturb(k) ==
    /\ pc = "tasks"
    /\ futures[k].state = "perturb"
    /\ futures' = [futures EXCEPT
                      ![k].state = "cg",
                      ![k].ttw = Perturbation(futures[k].Smat, TaskIn(k)[4])]
    /\ UNCHANGED <<self, call, no_gpu, max_workers, pc, j, i, f, output, oux, ovy, ret,
                   submitted, finished, held, failed, invoked, work>>

\* tts, code = cg(Smat, ttw, tol=tol, maxiter=maxiter)
TaskCg(k) ==
    /\ pc = "tasks"
    /\ futures[k].state = "cg"
    /\ LET r == cupy_cg(futures[k].Smat, futures[k].ttw, TaskIn(k)[5], TaskIn(k)[6]) IN
         futures' = [futures EXCEPT ![k].state = "check", ![k].tts = r.x,
                                    ![k].code = r.info]
    /\ UNCHANGED <<self, call, no_gpu, max_workers, pc, j, i, f, output, oux, ovy, ret,
                   submitted, finished, held, failed, invoked, work>>

\* if code != 0: raise SolverNotConvergedError(message, [... code ...])
TaskCheck(k) ==
    /\ pc = "tasks"
    /\ futures[k].state = "check"
    /\ IF futures[k].code # 0
       THEN LET r == Raised("SolverNotConvergedError", Msg(call.op), futures[k].code) IN
            /\ futures' = [futures EXCEPT ![k].state = "done", ![k].res = r]
            /\ TaskEnds(k, r)
       ELSE /\ futures' = [futures EXCEPT ![k].state = "add"]
            /\ UNCHANGED <<finished, held, failed>>
    /\ UNCHANGED <<self, call, no_gpu, max_workers, pc, j, i, f, output, oux, ovy, ret,
                   submitted, invoked, work>>

\* ttu += tts: the addition written into the input of the solve
TaskAddIntoInput(k) ==
    /\ pc = "tasks"
    /\ futures[k].state = "add"
    /\ LET sum == AddBack(futures[k].tts, TaskIn(k)[4])
           d == Len(sum) \div 2
       IN  /\ futures' = [futures EXCEPT ![k].state = "done", ![k].res = Returned(sum)]
           /\ call' = CASE call.op = "_many_compute" -> [call EXCEPT !.data[k] = sum]
                        [] call.op = "_spectra_compute" -> [call EXCEPT !.data = sum]
                        [] call.op = "_many_compute_full" ->
                              [call EXCEPT !.data[k] = SubSeq(sum, 1, d),
                                           !.vy[k] = SubSeq(sum, d + 1, 2 * d)]
                        [] call.op = "_spectra_compute_full" ->
                              [call EXCEPT !.data = SubSeq(sum, 1, d),
                                           !.vy = SubSeq(sum, d + 1, 2 * d)]
           /\ TaskEnds(k, Returned(sum))
    /\ UNCHANGED <<self, no_gpu, max_workers, pc, j, i, f, output, oux, ovy, ret,
                   submitted, invoked, work>>

\* tts += ttu; return tts.get()
TaskAdd(k) ==
    /\ pc = "tasks"
    /\ futures[k].state = "add"
    /\ LET r == Returned(AddBack(futures[k].tts, TaskIn(k)[4])) IN
         /\ futures' = [futures EXCEPT ![k].state = "done", ![k].tts = r.val,
                                       ![k].res = r]
         /\ TaskEnds(k, r)
    /\ UNCHANGED <<self, call, no_gpu, max_workers, pc, j, i, f, output, oux, ovy, ret,
                   submitted, invoked, work>>

NextTasks ==
    \/ \E k \in 1..Len(futures) : TaskAssemble(k)
    \/ \E k \in 1..Len(futures) : TaskPerturb(k)
    \/ \E k \in 1..Len(futures) : TaskCg(k)
    \/ \E k \in 1..Len(futures) : TaskCheck(k)
    \/ \E k \in 1..Len(futures) : TaskAdd(k)

SpecTasks == InitTasks /\ [][NextTasks]_vars

\* every statement of a solve: the single solves and the interleaved tasks
InitSteps == InitSolve \/ InitTasks
NextSteps == NextSolve \/ NextTasks
SpecSteps == InitSteps /\ [][NextSteps]_vars

----------------------------------------------------------------------------
(* The batch as a function of its inputs.                                  *)

\* the results the chunk loop gathers from offset jj on, chunk after chunk,
\* when every solve converges
RECURSIVE ChunkedSolves(_, _, _)
ChunkedSolves(slf, c, jj) ==
    IF jj >= Len(Items(c)) THEN <<>>
    ELSE [k \in 1..Len(Chunk(c, jj)) |-> helper(slf, c, TaskArg(c, jj, k - 1)).val]
         \o ChunkedSolves(slf, c, jj + n_parallel(c.op))

\* what the batch call c returns when every solve converges
BatchValue(slf, c) ==
    LET r == ChunkedSolves(slf, c, 0) IN
    IF c.op \in FullBatches
    THEN <<[p \in 1..Len(r) |-> FirstHalf(r[p], slf.n2d)],
           [p \in 1..Len(r) |-> SecondHalf(r[p], slf.n2d)]>>
    ELSE r

----------------------------------------------------------------------------
(* Properties.                                                             *)

\* number of tasks of the batch, and of results appended so far
NTasks == Len(Items(call))
OutLen == IF call.op \in FullBatches THEN Len(oux) ELSE Len(output)

\* the system size, and the 2N-vector holding ux at 0..N-1 and vy at N..2N-1
Joined(ux, vy) ==
    Tabulate([q \in 1..(2 * Len(ux)) |-> IF q <= Len(ux) THEN ux[q] ELSE vy[q - Len(ux)]])

\* the single solve on the input at 0-based position p of the batch, taken
\* from the arguments of the call alone
DirectArgs(c, p) ==
    CASE c.op = "_many_compute" ->
            <<"_compute", c.n, c.kl, c.data[p + 1], c.tol, c.maxiter>>
      [] c.op = "_spectra_compute" ->
            <<"_compute", c.n, c.kl[p + 1], c.data, c.tol, c.maxiter>>
      [] c.op = "_many_compute_full" ->
            <<"_compute_full", c.n, c.kl, Joined(c.data[p + 1], c.vy[p + 1]),
              c.tol, c.maxiter>>
      [] c.op = "_spectra_compute_full" ->
            <<"_compute_full", c.n, c.kl[p + 1], Joined(c.data, c.vy), c.tol, c.maxiter>>
Direct(p) == Solved(self, DirectArgs(call, p))

AllConverge == \A p \in 0..(NTasks - 1) : Direct(p).exc = NoExc

\* C1: when every solve of a batch converges, the batch returns one entry per
\* input, and the entry at position p is what the single solve gives on the
\* input at position p (for the combined batches, its two halves), whatever
\* the order in which the worker threads ran the tasks.
BatchOrderPreserved ==
    (call.op \in Batches /\ pc = "returned" /\ AllConverge) =>
        IF call.op \in FullBatches
        THEN /\ Len(ret.val[1]) = NTasks
             /\ Len(ret.val[2]) = NTasks
             /\ \A p \in 0..(NTasks - 1) :
                  ret.val[1][p + 1] \o ret.val[2][p + 1] = Direct(p).val
        ELSE /\ Len(ret.val) = NTasks
             /\ \A p \in 0..(NTasks - 1) : ret.val[p + 1] = Direct(p).val

\* a scalar batch of two chunks returned, run by two workers on two devices,
\* with distinct entries at its two ends
BatchOrderWitness ==
    /\ call.op = "_many_compute"
    /\ pc = "returned"
    /\ NTasks = n_parallel(call.op) + 1
    /\ max_workers = 2
    /\ no_gpu = 2
    /\ ret.val[1] # ret.val[NTasks]

\* C2: a batch returns only when every one of its solves converged; when a
\* solve fails the batch raises that solve's SolverNotConvergedError and
\* returns no list, not even of the results collected before.
FailurePropagates ==
    call.op \in Batches =>
        /\ (pc = "returned" => AllConverge)
        /\ (pc = "raised" =>
              /\ ret.val = NoVal
              /\ ret.exc.type = "SolverNotConvergedError"
              /\ \E p \in 0..(NTasks - 1) : Direct(p).exc = ret.exc)

\* a batch raised in its second chunk, after the results of its first chunk
\* were appended
FailureWitness ==
    /\ call.op \in Batches
    /\ pc = "raised"
    /\ j > 0
    /\ OutLen = j
    /\ ret.val = NoVal

\* C3: a single solve returns only when cg reported code 0; with any other
\* code it raises SolverNotConvergedError carrying that code and returns
\* nothing.
ConvergedOrRaised ==
    call.op \in Solves =>
        /\ (pc = "returned" => (work.code = 0 /\ ret.exc = NoExc))
        /\ ((pc \in {"add", "returned", "raised"} /\ work.code # 0) =>
              /\ pc = "raised"
              /\ ret.val = NoVal
              /\ ret.exc.type = "SolverNotConvergedError"
              /\ ret.exc.code = work.code)

\* a single solve raised with the nonzero code of cg
NotConvergedWitness ==
    /\ call.op \in Solves
    /\ pc = "raised"
    /\ work.code # 0
    /\ ret.exc.code = work.code

\* C4: the tasks of a batch that are submitted and not finished, and so the
\* solves that run at once, never number more than the chunk size: 24 in the
\* scalar batches, 12 in the combined ones.
InFlightBounded ==
    call.op \in Batches =>
        /\ Cardinality(InFlight) <= (IF call.op \in FullBatches THEN 12 ELSE 24)
        /\ Cardinality(Running) <= (IF call.op \in FullBatches THEN 12 ELSE 24)

\* a whole chunk of 24 tasks in flight, two of them running
InFlightWitness ==
    /\ call.op \in ScalarBatches
    /\ Cardinality(InFlight) = 24
    /\ Cardinality(Running) = 2

\* the call c over the items at positions a..b-1 of its list
ItemsFrom(c, a, b) ==
    [c EXCEPT !.data = IF c.op \in ManyBatches THEN Slice(c.data, a, b) ELSE c.data,
              !.vy = IF c.op = "_many_compute_full" THEN Slice(c.vy, a, b) ELSE c.vy,
              !.kl = IF c.op \in SpectraBatches THEN Slice(c.kl, a, b) ELSE c.kl]

\* C5: the tasks are submitted in the order 0, 1, 2, ... with no gap and no
\* repeat, each chunk starting at a multiple of the chunk size and holding at
\* most that many; at the return every task was submitted exactly once, and
\* the result equals the result of the batch over the first chunk-size
\* inputs followed by the result of the batch over the rest.
ChunksPartition ==
    call.op \in Batches =>
        /\ \A q \in 1..Len(submitted) : submitted[q] = q - 1
        /\ j % n_parallel(call.op) = 0
        /\ Len(futures) <= n_parallel(call.op)
        /\ (pc = "returned" =>
              /\ Len(submitted) = NTasks
              /\ LET a == BatchValue(self, ItemsFrom(call, 0, n_parallel(call.op)))
                     b == BatchValue(self, ItemsFrom(call, n_parallel(call.op), NTasks))
                 IN  IF call.op \in FullBatches
                     THEN ret.val = <<a[1] \o b[1], a[2] \o b[2]>>
                     ELSE ret.val = a \o b)

\* a batch one longer than the chunk size returned: its second chunk holds
\* the one task left
ChunksWitness ==
    /\ call.op \in Batches
    /\ pc = "returned"
    /\ NTasks = n_parallel(call.op) + 1
    /\ Len(submitted) = NTasks
    /\ j = 2 * n_parallel(call.op)

\* C6: a single solve forms w = b - M b, solves M y = w and returns x = y + b,
\* so that with the exact inner solve the returned x satisfies M x = b, in
\* both solves.
PerturbationForm ==
    call.op \in Solves =>
        /\ (pc \in {"cg", "check", "add", "returned"} =>
              \A p \in 1..Len(call.data) :
                  RAdd(work.ttw[p], MatVec(work.Smat, call.data)[p]) = call.data[p])
        /\ (pc = "add" => MatVec(work.Smat, work.tts) = work.ttw)
        /\ (pc = "returned" =>
              /\ MatVec(work.Smat, [p \in 1..Len(call.data) |->
                                        RSub(ret.val[p], call.data[p])]) = work.ttw
              /\ MatVec(work.Smat, ret.val) = call.data)

\* a combined solve returned a vector other than its input, from a
\* perturbation that is not zero
PerturbationWitness ==
    /\ call.op = "_compute_full"
    /\ pc = "returned"
    /\ work.ttw # ZeroVec(Len(work.ttw))
    /\ ret.val # call.data
    /\ MatVec(work.Smat, ret.val) = call.data

\* a triplet index of the instance lies outside the matrix of the solve
IndexOutOfRange ==
    ~(InRange(self.ii, Size(call.op, self)) /\ InRange(self.jj, Size(call.op, self)))

\* C7: a single solve whose instance holds a triplet index outside the
\* configured matrix size ends by raising InvalidDimensionError.
InvalidDimensionRaised ==
    (call.op \in Solves /\ pc \in {"returned", "raised"} /\ IndexOutOfRange) =>
        (pc = "raised" /\ ret.exc.type = "InvalidDimensionError")

\* C8: in the combined batches the two output lists have equal lengths, every
\* task solves on the vector holding its first field at positions 0..N-1 and
\* its second at N..2N-1, and the entries at position p of the two lists are
\* positions 0..N-1 and N..2N-1 of that solve's solution.
SplitHalves ==
    call.op \in FullBatches =>
        /\ Len(oux) = Len(ovy)
        /\ (pc \in {"submit", "collect"} =>
              \A k \in 1..Len(futures) :
                  SolveArgs(call, futures[k].arg) = DirectArgs(call, j + k - 1))
        /\ \A p \in 1..Len(oux) :
             LET x == Direct(p - 1).val IN
             /\ Len(x) = 2 * self.n2d
             /\ Len(oux[p]) = self.n2d
             /\ Len(ovy[p]) = self.n2d
             /\ \A q \in 1..self.n2d :
                  /\ oux[p][q] = x[q]
                  /\ ovy[p][q] = x[self.n2d + q]

\* a combined batch of two chunks returned, the halves of its last entry
\* distinct
SplitWitness ==
    /\ call.op = "_many_compute_full"
    /\ pc = "returned"
    /\ Len(oux) = n_parallel(call.op) + 1
    /\ Len(ovy) = Len(oux)
    /\ oux[Len(oux)] # ovy[Len(ovy)]

\* C9: a convergence failure of a scalar solve and one of a combined solve
\* carry different messages, each naming its own mode, and a batch raises the
\* message of the solve it is built on.
ErrorNamesMode ==
    /\ MsgScalar # MsgFull
    /\ ((pc = "raised" /\ ret.exc.type = "SolverNotConvergedError") =>
           ret.exc.msg = (IF call.op \in {"_compute_full", "_many_compute_full",
                                          "_spectra_compute_full"}
                          THEN "Solver has not converged with metric terms"
                          ELSE "Solver has not converged without metric terms"))

\* a combined batch raised the message of the combined solve
ErrorModeWitness ==
    /\ call.op = "_spectra_compute_full"
    /\ pc = "raised"
    /\ ret.exc.type = "SolverNotConvergedError"
    /\ ret.exc.msg = "Solver has not converged with metric terms"

\* C10: whenever a task of a chunk has been submitted, every task of the
\* chunks before it has been submitted, has finished and has its result
\* appended: j tasks precede the chunk at offset j and j results are in the
\* output.
ChunkBarrier ==
    (call.op \in Batches /\ pc = "submit" /\ Len(futures) > 0) =>
        /\ \A t \in 0..(j - 1) : t \in finished
        /\ \A t \in finished : t < j + Len(futures)
        /\ Len(submitted) = j + Len(futures)
        /\ OutLen = j

\* the task of the second chunk runs after the 24 tasks of the first have
\* finished and their results are appended
BarrierWitness ==
    /\ call.op \in ScalarBatches
    /\ pc = "submit"
    /\ j = 24
    /\ Len(futures) = 1
    /\ futures[1].state = "running"
    /\ Cardinality(finished) = 24
    /\ Len(output) = 24

\* the futures of the chunk at offset j, while it is submitted and collected
ChunkFutures == IF pc \in {"submit", "collect"} THEN 1..Len(futures) ELSE {}

\* C11 as stated: the device of every task is its index in the whole batch
\* modulo the device count.
DeviceByTaskIndex ==
    call.op \in Batches =>
        \A k \in ChunkFutures : futures[k].dev = (j + k - 1) % no_gpu

\* C11: the device of every task is its position in its chunk modulo the
\* device count; it is the task's index in the batch modulo the device count
\* when the device count divides the chunk size.
DeviceByChunkPosition ==
    call.op \in Batches =>
        \A k \in ChunkFutures :
            /\ futures[k].dev = (k - 1) % no_gpu
            /\ ((IF call.op \in FullBatches THEN 12 ELSE 24) % no_gpu = 0 =>
                    futures[k].dev = (j + k - 1) % no_gpu)

\* on five devices the task with index 24, the first of the second chunk, is
\* tied to device 0, and 24 modulo 5 is 4
DeviceWitness ==
    /\ call.op \in ScalarBatches
    /\ pc = "submit"
    /\ no_gpu = 5
    /\ j = 24
    /\ Len(futures) = 1
    /\ submitted[Len(submitted)] = 24
    /\ futures[1].dev = 0
    /\ 24 % no_gpu = 4

\* the least integer not below a / b
Ceil(a, b) == (a + b - 1) \div b

\* tasks of the current chunk tied to device d
TasksOn(d) == {k \in ChunkFutures : futures[k].dev = d}

\* C12: every task of a chunk has one device index in 0..device count - 1,
\* and no device has more than ceil(chunk length / device count) tasks of the
\* chunk, so no more than ceil(chunk size / device count).
DeviceLoadBounded ==
    call.op \in Batches =>
        /\ \A k \in ChunkFutures : futures[k].dev \in 0..(no_gpu - 1)
        /\ \A d \in 0..(no_gpu - 1) :
             /\ Cardinality(TasksOn(d)) <= Ceil(Len(Chunk(call, j)), no_gpu)
             /\ Cardinality(TasksOn(d)) <=
                    Ceil(IF call.op \in FullBatches THEN 12 ELSE 24, no_gpu)

\* a chunk of 24 tasks on five devices: device 0 has ceil(24 / 5) = 5 tasks,
\* device 4 has 4
DeviceLoadWitness ==
    /\ call.op \in ScalarBatches
    /\ pc = "submit"
    /\ no_gpu = 5
    /\ Len(futures) = 24
    /\ Cardinality(TasksOn(0)) = 5
    /\ Cardinality(TasksOn(4)) = 4

\* C13: the tasks that hold a device are the tasks whose solve runs, each on
\* the device it was submitted with; a task whose solve has ended, returned
\* or raised, holds none, and none is held when the batch returns or raises.
DeviceScoped ==
    call.op \in Batches =>
        /\ held = {<<j + k - 1, futures[k].dev>> : k \in Running}
        /\ \A h \in held : h[1] \notin finished /\ h[1] \notin failed
        /\ (pc \in {"returned", "raised"} => held = {})

\* a task whose solve raised holds no device while another task of its chunk
\* still holds one
DeviceScopedWitness ==
    /\ call.op \in Batches
    /\ pc = "submit"
    /\ failed # {}
    /\ held # {}
    /\ \A h \in held : h[1] \notin failed

\* a task of the current chunk has raised
ChunkHasFailure ==
    \E k \in 1..Len(futures) :
        futures[k].state = "done" /\ futures[k].res.exc # NoExc

\* C14: once a task of a chunk has failed, no other task of that chunk is run
\* to completion: from then on no task of the chunk finishes.
FailureAbortsChunk ==
    [][(call.op \in Batches /\ pc = "submit" /\ ChunkHasFailure) =>
          \A m \in 1..Len(futures) :
              futures'[m].state = "done" => futures[m].state = "done"]_vars

\* the offset of the chunk that holds task t
ChunkStart(t) == (t \div n_parallel(call.op)) * n_parallel(call.op)

\* C15: once a task of a chunk has failed, the chunk loop stays at that chunk
\* until the batch raises while collecting it: no task of a later chunk is
\* ever submitted or started.
NoChunkAfterFailure ==
    call.op \in Batches =>
        \A t \in failed :
            /\ j = ChunkStart(t)
            /\ pc \in {"submit", "collect", "raised"}
            /\ \A q \in 1..Len(submitted) :
                 submitted[q] < ChunkStart(t) + n_parallel(call.op)
            /\ \A q \in 1..Len(invoked) :
                 invoked[q].task < ChunkStart(t) + n_parallel(call.op)
            /\ (pc = "raised" => ret.exc.type = "SolverNotConvergedError")

\* a batch of two chunks raised on a failure in its first chunk, the task of
\* its second chunk never submitted
NoLaterChunkWitness ==
    /\ call.op \in Batches
    /\ pc = "raised"
    /\ failed # {}
    /\ j = 0
    /\ Len(Items(call)) = n_parallel(call.op) + 1
    /\ Len(submitted) = n_parallel(call.op)
    /\ Len(invoked) = n_parallel(call.op)

\* C16: no task is submitted twice and no task's solve is invoked twice, a
\* failed one neither: the q-th submission and the q-th invocation are those
\* of task q - 1; every invocation gets the tol and maxiter of the call; and
\* when the batch returns or raises, the solve of every task of the chunks
\* reached was invoked exactly once.
NoRetry ==
    call.op \in Batches =>
        /\ \A q \in 1..Len(submitted) : submitted[q] = q - 1
        /\ \A q \in 1..Len(invoked) :
             /\ invoked[q].task = q - 1
             /\ invoked[q].tol = call.tol
             /\ invoked[q].maxiter = call.maxiter
        /\ \A t \in failed : t < Len(invoked)
        /\ (pc = "returned" => Len(invoked) = NTasks)
        /\ (pc = "raised" => Len(invoked) = Min(j + n_parallel(call.op), NTasks))

\* a batch raised: the solves of its two failed tasks were invoked once each,
\* as were those of the other tasks of the chunk
NoRetryWitness ==
    /\ call.op \in Batches
    /\ pc = "raised"
    /\ Cardinality(failed) = 2
    /\ Len(invoked) = n_parallel(call.op)
    /\ \A t \in failed :
         Cardinality({q \in 1..Len(invoked) : invoked[q].task = t}) = 1

\* the sum of values[k] / kl^2 over the triplets k <= m at (row, col) = (r, c),
\* r and c counted from 0
RECURSIVE TripletSum(_, _, _)
TripletSum(r, c, m) ==
    IF m = 0 THEN Zero
    ELSE RAdd(TripletSum(r, c, m - 1),
              IF self.ii[m] = r /\ self.jj[m] = c
              THEN RDiv(self.ss[m], RMul(call.kl, call.kl))
              ELSE Zero)

\* entry (r, c) of S, and of the n-fold product S S ... S
SEntry(r, c) == TripletSum(r, c, Len(self.ss))
RECURSIVE SPowerEntry(_, _, _)
SPowerEntry(n, r, c) ==
    IF n = 1 THEN SEntry(r, c)
    ELSE RSum([m \in 1..Size(call.op, self) |->
                  RMul(SPowerEntry(n - 1, r, m - 1), SEntry(m - 1, c))])

\* C17: the filter matrix a solve builds is I + 0.5 S^n of the solve's size
\* (N, or 2N with metric terms), S holding at (r, c) the sum of values / kl^2
\* over the triplets at (r, c), S^n the n-fold matrix product, S itself for
\* n = 1.
FilterMatrixDefinition ==
    (call.op \in Solves /\ pc \in {"perturb", "cg", "check", "add", "returned"}) =>
        /\ Len(work.Smat) = (IF call.op = "_compute_full" THEN 2 * self.n2d ELSE self.n2d)
        /\ \A r, c \in 1..Len(work.Smat) :
             /\ work.Smat[r][c] =
                    RAdd(IF r = c THEN One ELSE Zero,
                         RMul(Half, SPowerEntry(call.n, r - 1, c - 1)))
             /\ (call.n = 1 =>
                    work.Smat[r][c] =
                        RAdd(IF r = c THEN One ELSE Zero, RMul(Half, SEntry(r - 1, c - 1))))

\* order 2 on the operator [[2, -1], [-1, 2]], whose entry (0, 0) comes from
\* two triplets: the filter matrix is I + 0.5 [[5, -4], [-4, 5]]
FilterMatrixWitness ==
    /\ call.op = "_compute"
    /\ pc = "perturb"
    /\ call.n = 2
    /\ call.kl = One
    /\ self.ii = <<0, 0, 0, 1, 1>>
    /\ work.Smat = <<<<<<7, 2>>, <<-2, 1>>>>, <<<<-2, 1>>, <<7, 2>>>>>>


\* the tasks of the interleaved chunk
Tasks == IF pc = "tasks" THEN 1..Len(futures) ELSE {}

\* C18: no statement of a single solve or of a task running beside another
\* one changes the instance (its triplet values, row and column
\* indices and its size), whether the solves succeed or fail; a step of a task
\* writes the locals of that task only, and a task that ran interleaved with
\* another one ends as its solve ends when run alone.
InstanceUntouched ==
    [][/\ self' = self
       /\ pc = "tasks" =>
            \E k \in Tasks : \A m \in Tasks \ {k} : futures'[m] = futures[m]
       /\ \A k \in Tasks :
            futures'[k].state = "done" => futures'[k].res = Direct(k - 1)]_vars

\* a task has failed while the other one is in the middle of its solve
InstanceWitness ==
    /\ pc = "tasks"
    /\ call.op = "_spectra_compute"
    /\ self = StiffMesh(2)
    /\ failed = {1}
    /\ futures[1].state = "cg"

\* C20: no statement of a single solve or of a task running beside another
\* one changes the arguments of the call (the input vectors, the one
\* vector shared by the tasks of a many-scale batch included); the addition
\* that ends a solve writes the increment of that solve and nothing else.
InputsUntouched ==
    [][/\ call' = call
       /\ pc = "add" =>
            /\ work' = [work EXCEPT !.tts = AddBack(work.tts, call.data)]
            /\ ret' = Returned(work'.tts)
       /\ \A k \in Tasks :
            (futures[k].state = "add" /\ futures'[k] # futures[k]) =>
                futures' = [futures EXCEPT
                               ![k].state = "done",
                               ![k].tts = AddBack(futures[k].tts, TaskIn(k)[4]),
                               ![k].res = Returned(AddBack(futures[k].tts, TaskIn(k)[4]))]
      ]_vars

\* one task has returned a field other than its input while the other task is
\* about to read the same input
InputsWitness ==
    /\ pc = "tasks"
    /\ call.op = "_spectra_compute"
    /\ futures[1].state = "done"
    /\ futures[1].res.exc = NoExc
    /\ futures[1].res.val # call.data
    /\ futures[2].state = "perturb"


\* C19: every batch call ends: it returns the list of all its results or it
\* raises, whatever the number of chunks, worker threads and devices and
\* whichever solves fail; the calling thread never waits for ever at the end
\* of a chunk.
BatchTerminates ==
    <>(\/ pc = "returned" /\ OutLen = NTasks
       \/ pc = "raised" /\ ret.exc # NoExc)

\* a batch of two chunks has raised in its second chunk, after the first
\* chunk was waited for and collected
BatchTerminatesWitness ==
    /\ pc = "raised"
    /\ max_workers = 2
    /\ NTasks > n_parallel(call.op)
    /\ j = n_parallel(call.op)
    /\ failed # {}
    /\ \A t \in failed : t >= j

====
